---------------------------- MODULE Spec2Model ----------------------------
(***************************************************************************)
(* Chat-turn orchestration of lit-tui: ChatScreen (screens/chat.py),       *)
(* MessageList (widgets/message_list.py) and the Sidebar handlers that     *)
(* call into the screen (widgets/sidebar.py).                              *)
(*                                                                         *)
(* Three asyncio tasks touch the screen's state and interleave at every    *)
(* await: the screen's message pump (on_mount, the two submit handlers),   *)
(* the sidebar's message pump (new_chat, load_session) and the screen's    *)
(* worker (send_message, generate_response: both @work(exclusive=True) in  *)
(* the default group, so starting one cancels the other).                  *)
(*                                                                         *)
(* Text is a sequence of tokens, so that concatenation is \o.              *)
(***************************************************************************)
EXTENDS Naturals, Sequences, FiniteSets

VARIABLES
    is_generating,     \* ChatScreen.is_generating
    current_session,   \* ChatScreen.current_session (the in-memory object)
    current_model,     \* ChatScreen.current_model
    message_list,      \* MessageList.messages (the display)
    stored,            \* StorageService: the persisted sessions, by id
    last_model,        \* StorageService: the persisted last model
    available_tools,   \* mcp_client.get_available_tools()
    worker,            \* the screen's exclusive worker slot
    handler,           \* the running new_chat / load_session coroutine
    mounted,           \* on_mount has finished
    notified,          \* the notifications shown by the step just taken
    last_submit,       \* history: what a submit handler did in the step just taken
    n_submitted,       \* history: submissions accepted so far
    n_faults,          \* history: faults raised by collaborators so far
    n_sessions,        \* history: sessions created by create_session so far
    n_sidebar,         \* history: sidebar events handled so far
    compose_calls,     \* history: compose_system_prompt calls per session id
    save_failed,       \* history: a call of save_session has raised
    added,             \* history: the entries added to a MessageList since
                       \* its last clear (kept by ListSpec)
    status             \* the text of the status bar (#status)

vars == <<is_generating, current_session, current_model, message_list, stored,
          last_model, available_tools, worker, handler, mounted, notified,
          last_submit, n_submitted, n_faults, n_sessions, n_sidebar,
          compose_calls, save_failed, added, status>>

---------------------------------------------------------------------------
\* Bounds of the model.

MaxSubmits == 2
MaxChunks == 2
MaxNewChats == 1
MaxFaults == 1
MaxSidebar == 1
MaxListLen == 3

---------------------------------------------------------------------------
\* Values.

NoModel == "none"
Available == <<"llama3", "codellama">>
Texts == <<"m1", "m2", "m3", "m4">>
Tokens == <<"a", "b", "c", "d">>

WELCOME == <<"Hello! I'm your AI assistant. How can I help you today?">>
NO_MODEL == <<"No Ollama model available.">>

ChatMessage(role, content, model) ==
    [role |-> role, content |-> content, model |-> model]

MessageWidget(role, content, turn) ==
    [role |-> role, content |-> content, turn |-> turn]

NoSession == [id |-> 0, messages |-> <<>>, model |-> NoModel]

\* A session an earlier run of the program left in storage.
LegacySession ==
    [id |-> 1,
     messages |-> <<ChatMessage("assistant", WELCOME, "codellama"),
                    ChatMessage("user", <<"m0">>, "codellama"),
                    ChatMessage("assistant", <<"b">>, "codellama")>>,
     model |-> "codellama"]

LegacyId == LegacySession.id

\* The legacy session, the session on_mount creates, and the new chats.
SessionIds == 1 .. (LegacyId + MaxNewChats + 1)

NoWorker ==
    [kind |-> "none", pc |-> "done", message |-> "", messages |-> <<>>,
     response_content |-> <<>>, yielded |-> <<>>, via |-> "none",
     model |-> NoModel, outcome |-> "none", session |-> 0, index |-> 0,
     calls |-> {}]

\* What mcp_client.call_tool returns, a dict or None: the keys of the dict
\* (none for None and for the empty dict), the value under "error", and the
\* value under "content", a list of items or a single value.
NoResult ==
    [keys |-> {}, error |-> "", is_list |-> FALSE, items |-> <<>>,
     value |-> ""]

NoHandler ==
    [kind |-> "none", pc |-> "done", session_id |-> 0, model_name |-> NoModel,
     available |-> FALSE, models |-> <<>>, tool_name |-> "",
     result |-> NoResult, returned |-> <<>>]

RECURSIVE Flatten(_)
Flatten(chunks) ==
    IF chunks = <<>> THEN <<>> ELSE Head(chunks) \o Flatten(Tail(chunks))

Last(s) == s[Len(s)]

IsPrefix(s, t) == Len(s) <= Len(t) /\ SubSeq(t, 1, Len(s)) = s

---------------------------------------------------------------------------
\* Collaborators whose code is outside the shown files.

\* ChatSession.add_message: the transcript grows at its end.
session_add_message(session, msg) ==
    [session EXCEPT !.messages = Append(@, msg)]

\* StorageService.save_session: the stored copy becomes the session saved.
save_session(store, session) ==
    [store EXCEPT ![session.id] = session]

\* StorageService.load_session: the stored session, or none (NoSession)
\* for an id that storage does not know.
load_session(store, id) == store[id]

\* StorageService.create_session(model): a new, empty session.
create_session(id, model) ==
    [id |-> id, messages |-> <<>>, model |-> model]

\* model_compatibility.supports_tools: a static deny-list.
supports_tools(model) == model \notin {"codellama", "codegemma", "starcoder"}

\* model_compatibility.suggest_alternative_model: the first compatible name.
suggest_alternative_model(model, names) ==
    LET ok == {i \in DOMAIN names : supports_tools(names[i]) /\ names[i] # model}
    IN  IF ok = {} THEN NoModel
        ELSE names[CHOOSE i \in ok : \A j \in ok : i <= j]

\* PromptComposer.compose_system_prompt: text assembled from the tool list.
compose_system_prompt(message, tools, model) ==
    <<"system prompt">> \o tools

\* MessageList.add_chunk_to_last_message: the chunk is appended to the
\* content of the most recently added message.
add_chunk_to_last_message(list, chunk) ==
    IF list = <<>> THEN list
    ELSE [list EXCEPT ![Len(list)].content = @ \o chunk]

---------------------------------------------------------------------------
\* MessageList (widgets/message_list.py).

\* The new entry is put ahead of the others.
add_message_AtFront(list, role, content, turn) ==
    <<MessageWidget(role, content, turn)>> \o list

\* message_list.py:111-126
add_message(list, role, content, turn) ==
    Append(list, MessageWidget(role, content, turn))

\* message_list.py:128-139
clear(list) == <<>>

\* message_list.py:141-143: a copy of the list.
get_messages(list) == list

\* message_list.py:145-150
update_last_message(list, content) ==
    IF list # <<>> THEN [list EXCEPT ![Len(list)].content = content]
    ELSE list

---------------------------------------------------------------------------
\* Faults: a collaborator call either returns (TRUE) or raises (FALSE).

Returns == IF n_faults < MaxFaults THEN {TRUE, FALSE} ELSE {TRUE}

Fault(ok) == n_faults' = IF ok THEN n_faults ELSE n_faults + 1

ErrorText(what) == <<"Error: ", what>>

\* A call of save_session returns (ok) or raises.
SaveReturns(ok) == save_failed' = (save_failed \/ ~ok)

---------------------------------------------------------------------------
\* The state after ChatScreen.__init__ (chat.py:80-91); storage holds what
\* earlier runs of the program left there.

Init ==
    /\ is_generating = FALSE
    /\ current_session = NoSession
    /\ current_model = NoModel
    /\ message_list = <<>>
    /\ stored = [i \in SessionIds |-> IF i = LegacyId THEN LegacySession
                                      ELSE NoSession]
    /\ last_model \in {NoModel, "codellama"}
    /\ available_tools = <<>>
    /\ worker = NoWorker
    /\ handler = [NoHandler EXCEPT !.kind = "on_mount", !.pc = "init"]
    /\ mounted = FALSE
    /\ notified = <<>>
    /\ last_submit = "none"
    /\ n_submitted = 0
    /\ n_faults = 0
    /\ n_sessions = 0
    /\ n_sidebar = 0
    /\ compose_calls = [i \in SessionIds \cup {0} |-> 0]
    /\ save_failed = FALSE
    /\ added = <<>>
    /\ status = "Initializing..."

---------------------------------------------------------------------------
\* on_mount -> _initialize_services (chat.py:117-179), then new_chat.

SelectModel(models, last) ==
    IF last # NoModel /\ \E i \in DOMAIN models : models[i] = last
    THEN last
    ELSE models[1]

\* The awaited calls of _initialize_services, each of which may raise.
InitServicesCalls ==
    {"is_available", "get_models", "load_last_model", "initialize"}

\* mcp_client.get_available_tools() once the client is initialized.
ToolLists == {<<>>, <<"read_file">>}

\* chat.py:128-179: _initialize_services with the screen's current model,
\* the answers of ollama_client.is_available and get_models, the stored
\* last model, the answer of mcp_client.initialize and the tools it then
\* has; `failing` is the call that raises if it is reached ("none": no
\* call raises).  The result is what the method leaves behind: the model,
\* the tools, the notifications, the status bar and the call that raised.
initialize_services(model, available, models, last, mcp_success, tools, failing) ==
    LET start == [current_model |-> model, available_tools |-> <<>>,
                  notified |-> <<>>,
                  status |-> "Checking Ollama connection...",
                  raised |-> "none"]
        selected == [start EXCEPT !.current_model = SelectModel(models, last)]
        failed(r) == [r EXCEPT !.status = "Initialization error",
                               !.notified = <<"Service initialization failed">>,
                               !.raised = failing]
    IN  IF failing = "is_available" THEN failed(start)
        ELSE IF ~available
        THEN [start EXCEPT !.status = "Ollama not available"]
        ELSE IF failing = "get_models" THEN failed(start)
        ELSE IF models = <<>>
        THEN [start EXCEPT !.status = "No models found"]
        ELSE IF failing = "load_last_model" THEN failed(start)
        ELSE IF failing = "initialize" THEN failed(selected)
        ELSE IF ~mcp_success
        THEN [selected EXCEPT !.status = "Connected to Ollama"]
        ELSE [selected EXCEPT
                  !.available_tools = tools,
                  !.status = IF tools = <<>> THEN "Connected"
                             ELSE "Ready with MCP tools"]

\* on_mount (chat.py:117-126): _initialize_services runs to its end, then
\* new_chat is called.
InitializeServices ==
    /\ handler.kind = "on_mount"
    /\ \E available \in BOOLEAN, mcp_success \in BOOLEAN, tools \in ToolLists,
          failing \in {"none"} \cup
              (IF n_faults < MaxFaults THEN InitServicesCalls ELSE {}) :
         LET r == initialize_services(current_model, available, Available,
                                      last_model, mcp_success, tools,
                                      failing)
         IN  /\ current_model' = r.current_model
             /\ available_tools' = r.available_tools
             /\ notified' = r.notified
             /\ status' = r.status
             /\ n_faults' = IF r.raised = "none" THEN n_faults
                            ELSE n_faults + 1
    /\ handler' = [NoHandler EXCEPT !.kind = "new_chat", !.pc = "create"]
    /\ last_submit' = "none"
    /\ UNCHANGED <<is_generating, current_session, message_list, stored,
                   last_model, worker, mounted, n_submitted, n_sessions,
                   n_sidebar, compose_calls, save_failed, added>>

---------------------------------------------------------------------------
\* @work(exclusive=True) (chat.py:197, 228): calling the decorated method
\* returns at once with a new worker; every other worker of the screen's
\* default group is cancelled, so the slot holds the new worker alone.  A
\* cancelled coroutine gets CancelledError at the await it is suspended in,
\* which `except Exception` does not catch.

Spawn(kind, message) ==
    [NoWorker EXCEPT !.kind = kind, !.pc = "start", !.message = message]

Finished(w, outcome) ==
    [NoWorker EXCEPT !.kind = w.kind, !.message = w.message,
                     !.outcome = outcome, !.session = w.session,
                     !.index = w.index, !.calls = w.calls]

---------------------------------------------------------------------------
\* on_input_submitted / on_send_button_pressed (chat.py:181-195).

\* The guard without the is_generating test.
SubmitGuard_NoFlag(text) == text # ""

SubmitGuard(text) == ~is_generating /\ text # ""

Submit ==
    /\ mounted
    /\ n_submitted < MaxSubmits
    /\ \E h \in {"on_input_submitted", "on_send_button_pressed"},
          text \in {"", Texts[n_submitted + 1]} :
         IF SubmitGuard(text)
         THEN /\ worker' = Spawn("send", text)
              /\ n_submitted' = n_submitted + 1
              /\ last_submit' = "accepted"
         ELSE /\ last_submit' = IF text = "" THEN "empty" ELSE "dropped"
              /\ UNCHANGED <<worker, n_submitted>>
    /\ notified' = <<>>
    /\ UNCHANGED <<is_generating, current_session, current_model,
                   message_list, stored, last_model, available_tools,
                   handler, mounted, n_faults, n_sessions,
                   n_sidebar,
                   compose_calls, save_failed, added, status>>

---------------------------------------------------------------------------
\* send_message (chat.py:197-226).

\* chat.py:200-209, up to the await inside MessageList.add_message.
SendStart ==
    /\ worker.kind = "send" /\ worker.pc = "start"
    /\ IF is_generating
       THEN /\ worker' = Finished(worker, "rejected")
            /\ UNCHANGED <<is_generating, message_list, status>>
       ELSE /\ is_generating' = TRUE
            /\ message_list' =
                   add_message(message_list, "user", <<worker.message>>, "")
            /\ worker' = [worker EXCEPT !.pc = "mount_user"]
            /\ status' = "Sending message..."
    /\ notified' = <<>>
    /\ last_submit' = "none"
    /\ UNCHANGED <<current_session, current_model, stored, last_model,
                   available_tools, handler, mounted, n_submitted,
                   n_faults, n_sessions,
                   n_sidebar,
                   compose_calls, save_failed, added>>

\* The user message put at the head of the transcript.
SendAddToSession_AtHead(session, text, model) ==
    [session EXCEPT
        !.messages = <<ChatMessage("user", <<text>>, model)>> \o @]

\* chat.py:213-214
SendAddToSession(session, text, model) ==
    session_add_message(session, ChatMessage("user", <<text>>, model))

\* chat.py:211-215, up to the await of save_session.
SendStore ==
    /\ worker.kind = "send" /\ worker.pc = "mount_user"
    /\ \E ok \in Returns :
         /\ Fault(ok)
         /\ IF current_session.id # 0
            THEN /\ current_session' = SendAddToSession(
                        current_session, worker.message, current_model)
                 /\ stored' = IF ok THEN save_session(stored, current_session')
                              ELSE stored
                 /\ worker' = [worker EXCEPT
                        !.pc = IF ok THEN "saved" ELSE "save_failed",
                        !.session = current_session.id,
                        !.index = Len(current_session.messages) + 1]
                 /\ SaveReturns(ok)
            ELSE /\ ok
                 /\ worker' = [worker EXCEPT !.pc = "saved"]
                 /\ UNCHANGED <<current_session, stored, save_failed>>
    /\ notified' = <<>>
    /\ last_submit' = "none"
    /\ UNCHANGED <<is_generating, current_model, message_list, last_model,
                   available_tools, handler, mounted, n_submitted,
                   n_sessions,
                   n_sidebar,
                   compose_calls, added, status>>

\* The flag is reset on the way to generate_response only.
SendFinally_NotOnFailure(failed) == failed

\* chat.py:224-226: the finally clause.
SendFinally(failed) == FALSE

\* chat.py:217-219 and the finally clause: generate_response is started as
\* a worker of its own (not awaited), and send_message runs to its end.
SendGenerate ==
    /\ worker.kind = "send" /\ worker.pc = "saved"
    /\ worker' = [Spawn("gen", worker.message) EXCEPT
                      !.session = worker.session, !.index = worker.index]
    /\ is_generating' = SendFinally(FALSE)
    /\ status' = "Ready"
    /\ notified' = <<>>
    /\ last_submit' = "none"
    /\ UNCHANGED <<current_session, current_model, message_list, stored,
                   last_model, available_tools, handler, mounted, n_submitted, n_faults, n_sessions,
                   n_sidebar,
                   compose_calls, save_failed, added>>

\* chat.py:221-226: save_session raised.
SendFailed ==
    /\ worker.kind = "send" /\ worker.pc = "save_failed"
    /\ worker' = Finished(worker, "failed")
    /\ notified' = <<"Error: save_session">>
    /\ is_generating' = SendFinally(TRUE)
    /\ status' = "Ready"
    /\ last_submit' = "none"
    /\ UNCHANGED <<current_session, current_model, message_list, stored,
                   last_model, available_tools, handler, mounted,
                   n_submitted, n_faults, n_sessions,
                   n_sidebar,
                   compose_calls, save_failed, added>>

---------------------------------------------------------------------------
\* generate_response (chat.py:228-366).

\* chat.py:241-248: the transcript as {role, content} pairs.
OllamaFormat(session) ==
    [i \in 1 .. Len(session.messages) |->
        [role |-> session.messages[i].role,
         content |-> session.messages[i].content]]

\* chat.py:255
has_system_message(messages) ==
    \E i \in DOMAIN messages : messages[i].role = "system"

\* The system message put at the end of the prompt.
InsertSystem_AtEnd(messages, content) ==
    messages \o <<[role |-> "system", content |-> content]>>

\* chat.py:275-279: messages.insert(0, system_msg)
InsertSystem(messages, content) ==
    <<[role |-> "system", content |-> content]>> \o messages

\* The diagnostic is shown after a streaming placeholder.
HandleNoModel_AfterPlaceholder(list) ==
    add_message(add_message(list, "assistant", <<>>, ""),
                "assistant", NO_MODEL, "")

\* chat.py:368-375
HandleNoModel(list) == add_message(list, "assistant", NO_MODEL, "")

\* The failure is swallowed without a display entry.
HandleError_Silent(list, what) == list

\* chat.py:363-366
HandleError(list, what) == add_message(list, "assistant", ErrorText(what), "")

\* chat.py:317-326
CompatError(model, tools, suggested) ==
    <<"Model Compatibility Issue", model, suggested>>

\* chat.py:232-233: the tool processor is reset at the start of every turn.
ResetToolProcessor(w) ==
    [w EXCEPT !.calls = @ \cup {"reset_for_new_conversation"}]

\* The collaborator call `what` is made by the turn of worker w.
Calls(w, what) == [w EXCEPT !.calls = @ \cup {what}]

\* chat.py:232-296: up to the await inside add_message("assistant", "").
GenPrepare ==
    /\ worker.kind = "gen" /\ worker.pc = "start"
    /\ IF current_model = NoModel
       THEN /\ message_list' = HandleNoModel(message_list)
            /\ worker' = Finished(ResetToolProcessor(worker), "no_model")
            /\ UNCHANGED <<n_faults, compose_calls>>
       ELSE LET messages == OllamaFormat(current_session) IN
            IF has_system_message(messages)
            THEN /\ worker' = [ResetToolProcessor(worker) EXCEPT
                                   !.pc = "mount_assistant",
                                   !.messages = messages]
                 /\ message_list' = add_message(message_list, "assistant",
                                                <<>>, worker.message)
                 /\ UNCHANGED <<n_faults, compose_calls>>
            ELSE \E ok \in Returns :
                 /\ Fault(ok)
                 /\ compose_calls' =
                        [compose_calls EXCEPT ![current_session.id] = @ + 1]
                 /\ IF ok
                    THEN /\ worker' = [Calls(ResetToolProcessor(worker),
                                            "compose_system_prompt") EXCEPT
                               !.pc = "mount_assistant",
                               !.messages = InsertSystem(messages,
                                   compose_system_prompt(worker.message,
                                       available_tools, current_model))]
                         /\ message_list' = add_message(message_list,
                                "assistant", <<>>, worker.message)
                    ELSE /\ worker' = Finished(
                                Calls(ResetToolProcessor(worker),
                                      "compose_system_prompt"), "failed")
                         /\ message_list' = HandleError(message_list,
                                                "compose_system_prompt")
    /\ notified' = <<>>
    /\ last_submit' = "none"
    /\ UNCHANGED <<is_generating, current_session, current_model, stored,
                   last_model, available_tools, handler, mounted, n_submitted,
                   n_sessions, n_sidebar, save_failed, added, status>>

\* The turn goes on without the test of supports_tools.
Route_NoGate(tools, model) ==
    IF tools # <<>> THEN "tools" ELSE "chat"

\* chat.py:305-309, 333, 344: which way the turn goes after the placeholder
\* is mounted.
Route(tools, model) ==
    IF tools # <<>>
    THEN IF ~supports_tools(model) THEN "blocked" ELSE "tools"
    ELSE "chat"

\* chat.py:333, 344: the generation source of each route.
GenerationSource(route) ==
    IF route = "tools" THEN "process_with_tools" ELSE "chat_completion"

\* chat.py:304-348: the capability gate, then the call of the generation
\* source (process_with_tools or chat_completion).
GenGate ==
    /\ worker.kind = "gen" /\ worker.pc = "mount_assistant"
    /\ LET route == Route(available_tools, current_model) IN
       worker' = IF route = "blocked"
                 THEN [Calls(worker, "list_models") EXCEPT
                          !.pc = "list_models"]
                 ELSE [Calls(worker, GenerationSource(route)) EXCEPT
                          !.pc = "stream", !.via = route,
                          !.model = current_model]
    /\ notified' = <<>>
    /\ last_submit' = "none"
    /\ UNCHANGED <<is_generating, current_session, current_model,
                   message_list, stored, last_model, available_tools,
                   handler, mounted, n_submitted, n_faults,
                   n_sessions,
                   n_sidebar,
                   compose_calls, save_failed, added, status>>

\* chat.py:314-330: after the await of list_models.
GenBlocked ==
    /\ worker.kind = "gen" /\ worker.pc = "list_models"
    /\ \E ok \in Returns :
         /\ Fault(ok)
         /\ IF ok
            THEN /\ message_list' = update_last_message(message_list,
                        CompatError(current_model, available_tools,
                            suggest_alternative_model(current_model,
                                                      Available)))
                 /\ worker' = Finished(worker, "blocked")
            ELSE /\ message_list' = HandleError(message_list, "list_models")
                 /\ worker' = Finished(worker, "failed")
    /\ notified' = <<>>
    /\ last_submit' = "none"
    /\ UNCHANGED <<is_generating, current_session, current_model, stored,
                   last_model, available_tools, handler, mounted, n_submitted, n_sessions,
                   n_sidebar,
                   compose_calls, save_failed, added, status>>


\* The chunk replaces the text accumulated so far.
Accumulate_Overwrite(response_content, chunk) == chunk

\* chat.py:349: response_content += chunk
Accumulate(response_content, chunk) == response_content \o chunk

\* chat.py:299-302: unified_stream_callback
unified_stream_callback(list, chunk) ==
    IF chunk # <<>> THEN add_chunk_to_last_message(list, chunk) ELSE list

\* chat.py:344-351 (and the callback handed to process_with_tools at
\* 333-339): one chunk arrives from the generation source.
GenChunk ==
    /\ worker.kind = "gen" /\ worker.pc = "stream"
    /\ Len(worker.yielded) < MaxChunks
    /\ \E chunk \in {<<>>, <<Tokens[Len(worker.yielded) + 1]>>} :
         /\ worker' = [worker EXCEPT
                !.response_content = Accumulate(@, chunk),
                !.yielded = Append(@, chunk)]
         /\ message_list' = unified_stream_callback(message_list, chunk)
    /\ notified' = <<>>
    /\ last_submit' = "none"
    /\ UNCHANGED <<is_generating, current_session, current_model, stored,
                   last_model, available_tools, handler, mounted, n_submitted, n_faults, n_sessions,
                   n_sidebar,
                   compose_calls, save_failed, added, status>>

\* chat.py:363-366: the generation source raised while streaming.
GenStreamFailed ==
    /\ worker.kind = "gen" /\ worker.pc = "stream"
    /\ n_faults < MaxFaults
    /\ n_faults' = n_faults + 1
    /\ message_list' = HandleError(message_list, "chat_completion")
    /\ worker' = Finished(worker, "failed")
    /\ notified' = <<>>
    /\ last_submit' = "none"
    /\ UNCHANGED <<is_generating, current_session, current_model, stored,
                   last_model, available_tools, handler, mounted, n_submitted, n_sessions,
                   n_sidebar,
                   compose_calls, save_failed, added, status>>

\* The reply is stored whenever there is a session.
StoresReply_AnyText(session, response_content) == session.id # 0

\* chat.py:354: the reply is stored only when there is a session and text.
StoresReply(session, response_content) ==
    session.id # 0 /\ response_content # <<>>

\* chat.py:355-360
GenAddToSession(session, response_content, model) ==
    session_add_message(session,
                        ChatMessage("assistant", response_content, model))

\* The reply stays in memory: the session is not saved.
GenSaveSession_Skipped(store, session) == store

\* chat.py:361: await self.storage_service.save_session(self.current_session)
GenSaveSession(store, session) == save_session(store, session)

\* chat.py:353-366: the stream has ended.
GenFinish ==
    /\ worker.kind = "gen" /\ worker.pc = "stream"
    /\ \E ok \in Returns :
         /\ Fault(ok)
         /\ IF StoresReply(current_session, worker.response_content)
            THEN /\ current_session' = GenAddToSession(current_session,
                        worker.response_content, current_model)
                 /\ SaveReturns(ok)
                 /\ IF ok
                    THEN /\ stored' = GenSaveSession(stored, current_session')
                         /\ worker' = Finished(worker, "saved")
                         /\ UNCHANGED message_list
                    ELSE /\ worker' = Finished(worker, "save_failed")
                         /\ message_list' =
                                HandleError(message_list, "save_session")
                         /\ UNCHANGED stored
            ELSE /\ ok
                 /\ worker' = Finished(worker, "not_stored")
                 /\ UNCHANGED <<current_session, stored, message_list,
                                save_failed>>
    /\ notified' = <<>>
    /\ last_submit' = "none"
    /\ UNCHANGED <<is_generating, current_model, last_model,
                   available_tools, handler, mounted, n_submitted,
                   n_sessions,
                   n_sidebar,
                   compose_calls, added, status>>

---------------------------------------------------------------------------
\* new_chat (chat.py:382-417), called by on_mount and by the sidebar's
\* New Chat button (sidebar.py:107-111).

HandlerDone == handler' = NoHandler /\ mounted' = TRUE

NewChat ==
    /\ mounted
    /\ handler.kind = "none"
    /\ n_sessions < MaxNewChats + 1
    /\ n_sidebar < MaxSidebar
    /\ n_sidebar' = n_sidebar + 1
    /\ handler' = [NoHandler EXCEPT !.kind = "new_chat", !.pc = "create"]
    /\ notified' = <<>>
    /\ last_submit' = "none"
    /\ UNCHANGED <<is_generating, current_session, current_model,
                   message_list, stored, last_model, available_tools,
                   worker, mounted, n_submitted, n_faults,
                   n_sessions,
                   compose_calls, save_failed, added, status>>

\* chat.py:385-388: after the await of create_session.
NewChatCreate ==
    /\ handler.kind = "new_chat" /\ handler.pc = "create"
    /\ \E ok \in Returns :
         /\ Fault(ok)
         /\ IF ok
            THEN /\ current_session' =
                        create_session(LegacyId + n_sessions + 1,
                                       current_model)
                 /\ n_sessions' = n_sessions + 1
                 /\ handler' = [handler EXCEPT !.pc = "clear"]
                 /\ notified' = <<>>
                 /\ UNCHANGED mounted
            ELSE /\ notified' = <<"Error creating session">>
                 /\ HandlerDone
                 /\ UNCHANGED <<current_session, n_sessions>>
    /\ last_submit' = "none"
    /\ UNCHANGED <<is_generating, current_model, message_list, stored,
                   last_model, available_tools, worker, n_submitted,
                   n_sidebar,
                   compose_calls, save_failed, added, status>>

\* chat.py:390-396: the display is emptied and the welcome message added.
NewChatDisplay(list) == add_message(clear(list), "assistant", WELCOME, "")

NewChatClear ==
    /\ handler.kind = "new_chat" /\ handler.pc = "clear"
    /\ message_list' = NewChatDisplay(message_list)
    /\ handler' = [handler EXCEPT !.pc = "mount_welcome"]
    /\ notified' = <<>>
    /\ last_submit' = "none"
    /\ UNCHANGED <<is_generating, current_session, current_model, stored,
                   last_model, available_tools, worker, mounted, n_submitted, n_faults, n_sessions, n_sidebar,
                   compose_calls, save_failed, added, status>>

\* chat.py:398-417: the welcome message is stored and the session saved.
NewChatSave ==
    /\ handler.kind = "new_chat" /\ handler.pc = "mount_welcome"
    /\ \E ok \in Returns :
         /\ Fault(ok)
         /\ IF current_session.id # 0
            THEN /\ current_session' = session_add_message(current_session,
                        ChatMessage("assistant", WELCOME, current_model))
                 /\ stored' = IF ok THEN save_session(stored, current_session')
                              ELSE stored
                 /\ notified' = IF ok THEN <<"Started new chat session">>
                              ELSE <<"Error creating session">>
                 /\ status' = IF ok THEN "New session" ELSE status
                 /\ SaveReturns(ok)
            ELSE /\ ok
                 /\ notified' = <<"Error creating session">>
                 /\ UNCHANGED <<current_session, stored, save_failed,
                                status>>
    /\ HandlerDone
    /\ last_submit' = "none"
    /\ UNCHANGED <<is_generating, current_model, message_list, last_model,
                   available_tools, worker, n_submitted, n_sessions,
                   n_sidebar,
                   compose_calls, added>>

---------------------------------------------------------------------------
\* load_session (chat.py:419-445), called by the sidebar when a session is
\* selected (sidebar.py:159-172), and change_model (chat.py:452-483).

LoadSession ==
    /\ mounted
    /\ handler.kind = "none"
    /\ n_sidebar < MaxSidebar
    /\ n_sidebar' = n_sidebar + 1
    /\ \E id \in SessionIds :
         handler' = [NoHandler EXCEPT !.kind = "load_session",
                                      !.pc = "load", !.session_id = id]
    /\ notified' = <<>>
    /\ last_submit' = "none"
    /\ UNCHANGED <<is_generating, current_session, current_model,
                   message_list, stored, last_model, available_tools,
                   worker, mounted, n_submitted, n_faults,
                   n_sessions,
                   compose_calls, save_failed, added, status>>

\* Every id is taken to name a session.
SessionFound_Always(session) == TRUE

\* chat.py:423: `if not session`
SessionFound(session) == session.id # 0

\* chat.py:422-427: after the await of storage_service.load_session; the
\* sidebar adds its own notification when load_session returns.
LoadFetch ==
    /\ handler.kind = "load_session" /\ handler.pc = "load"
    /\ \E ok \in Returns :
         /\ Fault(ok)
         /\ IF ~ok
            THEN /\ notified' = <<"Error loading session", "Loaded session">>
                 /\ HandlerDone
                 /\ UNCHANGED current_session
            ELSE IF ~SessionFound(load_session(stored, handler.session_id))
            THEN /\ notified' = <<"Session not found", "Loaded session">>
                 /\ HandlerDone
                 /\ UNCHANGED current_session
            ELSE /\ current_session' =
                        load_session(stored, handler.session_id)
                 /\ handler' = [handler EXCEPT !.pc = "clear"]
                 /\ notified' = <<>>
                 /\ UNCHANGED mounted
    /\ last_submit' = "none"
    /\ UNCHANGED <<is_generating, current_model, message_list, stored,
                   last_model, available_tools, worker, n_submitted,
                   n_sessions, n_sidebar,
                   compose_calls, save_failed, added, status>>

\* chat.py:429-435: the display is rebuilt from the session's messages.
LoadDisplay(session) ==
    [i \in 1 .. Len(session.messages) |->
        MessageWidget(session.messages[i].role,
                      session.messages[i].content, "")]

LoadShow ==
    /\ handler.kind = "load_session" /\ handler.pc = "clear"
    /\ message_list' = LoadDisplay(current_session)
    /\ handler' = [handler EXCEPT !.pc = "shown"]
    /\ notified' = <<>>
    /\ last_submit' = "none"
    /\ UNCHANGED <<is_generating, current_session, current_model, stored,
                   last_model, available_tools, worker, mounted, n_submitted, n_faults, n_sessions, n_sidebar,
                   compose_calls, save_failed, added, status>>

\* chat.py:438
ModelDiffers(session, model) ==
    session.model # NoModel /\ session.model # model

\* chat.py:476-478: self.current_session.model = model_name
SetSessionModel(session, name) == [session EXCEPT !.model = name]

\* chat.py:455-459
ModelKnown(name) == \E i \in DOMAIN Available : Available[i] = name

\* The calls of change_model that can raise.
ChangeModelCalls == {"get_models", "save_last_model", "save_session"}

\* chat.py:452-483: change_model(name) with the screen's current model,
\* the stored last model, the current session and the stored sessions;
\* `failing` is the call that raises if it is reached ("none": no call
\* raises).  The result is what the method leaves behind, the
\* notifications it shows, the texts it puts in the status bar, and the
\* call that raised.
change_model(name, failing, model, last, session, store) ==
    LET before == [current_model |-> model, last_model |-> last,
                   current_session |-> session, stored |-> store,
                   notified |-> <<>>, status |-> <<>>, raised |-> "none"]
        renamed == IF session.id # 0 THEN SetSessionModel(session, name)
                   ELSE session
    IN  IF failing = "get_models"
        THEN [before EXCEPT !.notified = <<"Error changing model">>,
                            !.raised = failing]
        ELSE IF ~ModelKnown(name)
        THEN [before EXCEPT !.notified = <<"Model not found">>]
        ELSE IF failing = "save_last_model"
        THEN [before EXCEPT !.current_model = name,
                            !.notified = <<"Error changing model">>,
                            !.raised = failing]
        ELSE IF failing = "save_session" /\ session.id # 0
        THEN [before EXCEPT !.current_model = name,
                            !.last_model = name,
                            !.current_session = renamed,
                            !.status = <<"Using model">>,
                            !.notified = <<"Switched to model",
                                           "Error changing model">>,
                            !.raised = failing]
        ELSE [before EXCEPT !.current_model = name,
                            !.last_model = name,
                            !.current_session = renamed,
                            !.stored = IF session.id # 0
                                       THEN save_session(store, renamed)
                                       ELSE store,
                            !.status = <<"Using model">>,
                            !.notified = <<"Switched to model">>]

\* chat.py:437-441, with change_model (chat.py:452-483) when the session's
\* model differs.
LoadModel ==
    /\ handler.kind = "load_session" /\ handler.pc = "shown"
    /\ IF ~ModelDiffers(current_session, current_model)
       THEN /\ notified' = <<"Loaded session">>
            /\ UNCHANGED <<current_model, last_model, current_session,
                           stored, n_faults, save_failed>>
       ELSE \E failing \in {"none"} \cup
                 (IF n_faults < MaxFaults THEN ChangeModelCalls ELSE {}) :
            LET r == change_model(current_session.model, failing,
                                  current_model, last_model,
                                  current_session, stored)
            IN  /\ n_faults' = IF r.raised = "none" THEN n_faults
                               ELSE n_faults + 1
                /\ current_model' = r.current_model
                /\ last_model' = r.last_model
                /\ current_session' = r.current_session
                /\ stored' = r.stored
                /\ save_failed' = (save_failed \/ r.raised = "save_session")
                /\ notified' = r.notified \o <<"Loaded session">>
    /\ status' = "Loaded session"
    /\ HandlerDone
    /\ last_submit' = "none"
    /\ UNCHANGED <<is_generating, message_list, available_tools, worker,
                   n_submitted, n_sessions, n_sidebar,
                   compose_calls, added>>

---------------------------------------------------------------------------

Next ==
    \/ InitializeServices
    \/ Submit
    \/ SendStart
    \/ SendStore
    \/ SendGenerate
    \/ SendFailed
    \/ GenPrepare
    \/ GenGate
    \/ GenBlocked
    \/ GenChunk
    \/ GenStreamFailed
    \/ GenFinish
    \/ NewChat
    \/ NewChatCreate
    \/ NewChatClear
    \/ NewChatSave
    \/ LoadSession
    \/ LoadFetch
    \/ LoadShow
    \/ LoadModel

Spec == Init /\ [][Next]_vars

---------------------------------------------------------------------------
\* Properties.

\* A turn is in flight from the moment send_message has accepted a
\* submission until its generate_response has returned.
TurnInFlight ==
    \/ worker.kind = "send" /\ worker.pc \in {"mount_user", "saved",
                                              "save_failed"}
    \/ worker.kind = "gen" /\ worker.pc # "done"

Streaming == worker.kind = "gen" /\ worker.pc = "stream"

\* C1: while a turn is in flight (send_message has accepted a submission
\* and its generate_response has not finished), a submission handled by
\* on_input_submitted or on_send_button_pressed is dropped: it starts no
\* new turn and leaves the worker in flight alone.
C1_MutualExclusion ==
    [][(TurnInFlight /\ last_submit' # "none")
          => (last_submit' # "accepted" /\ worker' = worker)]_vars

TurnCompleted == worker.kind = "gen" /\ worker.pc = "done"

\* C3: once a turn has completed, the user message it appended to the
\* transcript is immediately followed by exactly one assistant message,
\* whatever the turn's outcome was.
C3_UserFollowedByOneAssistant ==
    (TurnCompleted /\ worker.index > 0
        /\ current_session.id = worker.session)
    => LET m == current_session.messages
           i == worker.index
       IN  /\ Len(m) = i + 1
           /\ m[i].role = "user"
           /\ m[i + 1].role = "assistant"

\* The place of a text in the order of submission ("m0" was submitted in
\* an earlier run).
SubmissionOrder(text) ==
    IF text = "m0" THEN 0
    ELSE CHOOSE i \in DOMAIN Texts : Texts[i] = text

UserMessagesInOrder(session) ==
    LET m == session.messages IN
    \A i, j \in DOMAIN m :
        (i < j /\ m[i].role = "user" /\ m[j].role = "user")
            => SubmissionOrder(m[i].content[1])
                   < SubmissionOrder(m[j].content[1])

\* A step of send_message or generate_response, or the step of
\* load_session that runs change_model.
TranscriptWriterStep ==
    \/ worker' # worker /\ handler' = handler
    \/ handler.kind = "load_session" /\ handler.pc = "shown"

\* C4: the user messages of a transcript are in the order they were
\* submitted, and send_message, generate_response and change_model only
\* ever append at the end of the current transcript: what was in it stays,
\* in the same order.
C4_AppendOnlyInOrder ==
    [][/\ UserMessagesInOrder(current_session')
       /\ \A id \in SessionIds : UserMessagesInOrder(stored'[id])
       /\ TranscriptWriterStep =>
             /\ current_session'.id = current_session.id
             /\ IsPrefix(current_session.messages,
                         current_session'.messages)]_vars

\* C4 happens: two submissions of this run are in the current transcript.
C4_Witness ==
    \E i, j \in DOMAIN current_session.messages :
        /\ i < j
        /\ current_session.messages[i] = ChatMessage("user", <<"m1">>,
                                                     current_model)
        /\ current_session.messages[j].role = "user"
        /\ current_session.messages[j].content = <<"m2">>


\* The display entries opened by the turn in flight.
OwnEntries ==
    {i \in DOMAIN message_list : message_list[i].turn = worker.message}

\* generate_response leaves its streaming loop with the stream at its end.
StreamCompletes ==
    /\ Streaming
    /\ worker'.kind = "gen" /\ worker'.pc = "done"
    /\ worker'.outcome \in {"saved", "save_failed", "not_stored"}

AtGateDenied ==
    /\ worker.kind = "gen" /\ worker.pc = "mount_assistant"
    /\ available_tools # <<>>
    /\ ~supports_tools(current_model)

\* generate_response returns from the branch the gate sent it into.
BlockedTurnEnds ==
    /\ worker.kind = "gen" /\ worker.pc = "list_models"
    /\ worker'.kind = "gen" /\ worker'.pc = "done"

GenerationSourceUntouched ==
    /\ worker.via = "none"
    /\ worker.yielded = <<>>
    /\ worker.response_content = <<>>

CompatErrorNow ==
    CompatError(current_model, available_tools,
                suggest_alternative_model(current_model, Available))

PromptBuilt ==
    worker.kind = "gen"
        /\ worker.pc \in {"mount_assistant", "list_models", "stream"}

SystemPositions(messages) ==
    {i \in DOMAIN messages : messages[i].role = "system"}

\* C7: a prompt built by generate_response holds at most one system
\* message, and that one at its first position, followed by the
\* transcript.
C7_SystemMessageOnceAtHead ==
    /\ [](PromptBuilt =>
            /\ Cardinality(SystemPositions(worker.messages)) <= 1
            /\ SystemPositions(worker.messages) \subseteq {1})
    /\ [][(worker.kind = "gen" /\ worker.pc = "start"
              /\ worker'.kind = "gen" /\ worker'.pc = "mount_assistant")
          => \/ worker'.messages = OllamaFormat(current_session)
             \/ /\ worker'.messages[1].role = "system"
                /\ Tail(worker'.messages) = OllamaFormat(current_session)
                /\ ~has_system_message(OllamaFormat(current_session))]_vars

\* C7 happens: a prompt with the system message ahead of a transcript of
\* three messages is being streamed against.
C7_Witness ==
    /\ Streaming
    /\ Len(worker.messages) = 4
    /\ worker.messages[1].role = "system"
    /\ worker.messages[4].role = "user"

\* C8: over the turns of one session compose_system_prompt is called at
\* most once.
C8_ComposedOncePerSession ==
    \A id \in SessionIds : compose_calls[id] <= 1


\* The event loop runs every task that is ready, and each await of
\* send_message (the mount of the user entry, save_session) returns or
\* raises: a send_message that can take its next step takes it.
FairSpec ==
    /\ Spec
    /\ WF_vars(SendStart)
    /\ WF_vars(SendStore)
    /\ WF_vars(SendGenerate)
    /\ WF_vars(SendFailed)

\* C9: after an accepted submission is_generating is reset to false,
\* whatever becomes of the turn, and with is_generating false a submission
\* with text is accepted, never dropped.
C9_GeneratingFlagIsReset ==
    /\ is_generating ~> ~is_generating
    /\ [][last_submit' = "dropped" => is_generating]_vars

\* C9 happens: send_message failed while storing the user message, and
\* is_generating is false again.
C9_Witness ==
    /\ worker.kind = "send" /\ worker.outcome = "failed"
    /\ ~is_generating

ReplyOf(w, model) == ChatMessage("assistant", w.response_content, model)

---------------------------------------------------------------------------
\* generate_response takes its first step with no model configured.
NoModelTurnStep ==
    /\ worker.kind = "gen" /\ worker.pc = "start"
    /\ current_model = NoModel
    /\ worker' # worker /\ worker'.kind = "gen"

\* What that step does to the display and to the turn.
NoModelDiagnosticOnly ==
    /\ message_list' =
           Append(message_list, MessageWidget("assistant", NO_MODEL, ""))
    /\ worker'.pc = "done" /\ worker'.outcome = "no_model"
    /\ worker'.yielded = <<>> /\ worker'.response_content = <<>>
    /\ UNCHANGED <<compose_calls, current_session, stored, n_faults>>

\* C11: with no model configured, generate_response adds the fixed
\* no-model diagnostic as one assistant display entry and returns; the
\* turn adds no streaming placeholder and makes no call at all of the
\* generation source, the Prompt Composer or the tool processor.
C11_NoModelCallsNothing ==
    [][NoModelTurnStep =>
          (NoModelDiagnosticOnly /\ worker'.calls = {})]_vars

\* C11, amended: with no model configured, generate_response first resets
\* the tool processor (reset_for_new_conversation), then adds the fixed
\* no-model diagnostic as one assistant display entry and returns; the
\* turn adds no streaming placeholder and calls neither the generation
\* source (chat_completion, process_with_tools), nor the Prompt Composer,
\* nor list_models.
C11_NoModelDiagnosticOnly ==
    [][NoModelTurnStep =>
          (NoModelDiagnosticOnly
           /\ worker'.calls = {"reset_for_new_conversation"})]_vars

\* C11 happens: a turn ended with the no-model diagnostic as the last
\* display entry, right after the user's entry.
C11_Witness ==
    /\ TurnCompleted /\ worker.outcome = "no_model"
    /\ Len(message_list) >= 2
    /\ Last(message_list) = MessageWidget("assistant", NO_MODEL, "")
    /\ message_list[Len(message_list) - 1].role = "user"

---------------------------------------------------------------------------
\* A collaborator call of generate_response raises: the step that takes the
\* turn into its except clause.
GenFailureStep ==
    /\ worker.kind = "gen" /\ worker'.kind = "gen" /\ worker' # worker
    /\ n_faults' = n_faults + 1

\* The call that raised, by the place generate_response was suspended at.
FailedCall ==
    IF worker.pc = "start" THEN "compose_system_prompt"
    ELSE IF worker.pc = "list_models" THEN "list_models"
    ELSE IF worker'.outcome = "save_failed" THEN "save_session"
    ELSE "chat_completion"

\* C12: a failure raised by prompt composition, model listing or streaming
\* (or the save after the stream) inside generate_response is caught in
\* the turn: an assistant entry with the error text is appended to the
\* display, generate_response returns, and the screen is idle afterwards,
\* so that a submission with text passes the guard.
C12_FailureCaughtInTurn ==
    [][GenFailureStep =>
          /\ message_list' =
                 Append(message_list,
                        MessageWidget("assistant", ErrorText(FailedCall), ""))
          /\ worker'.pc = "done"
          /\ worker'.outcome \in {"failed", "save_failed"}
          /\ ~is_generating'
          /\ \A i \in DOMAIN Texts : SubmitGuard(Texts[i])'
          /\ UNCHANGED <<handler, mounted, stored>>]_vars

\* C12 happens: the stream of the first turn failed, its error entry is on
\* display, and the next submission has been accepted.
C12_Witness ==
    /\ last_submit = "accepted" /\ n_submitted = 2
    /\ \E i \in DOMAIN message_list :
          message_list[i] =
              MessageWidget("assistant", ErrorText("chat_completion"), "")

---------------------------------------------------------------------------
\* send_message leaves through its except clause: save_session raised
\* while the user message was being stored.
SendFailureStep ==
    /\ worker.kind = "send" /\ worker.pc = "save_failed"
    /\ worker'.kind = "send" /\ worker'.pc = "done"

\* An assistant entry with an error text.
IsErrorEntry(entry) ==
    entry.role = "assistant" /\ IsPrefix(<<"Error: ">>, entry.content)

\* C13: when save_session raises while send_message stores the user
\* message, the failure is caught, an assistant entry with the error text
\* is added to the display, and is_generating is reset.
C13_SaveFailureShownInDisplay ==
    [][SendFailureStep =>
          /\ worker'.outcome = "failed"
          /\ ~is_generating'
          /\ Len(message_list') = Len(message_list) + 1
          /\ IsErrorEntry(Last(message_list'))]_vars

---------------------------------------------------------------------------
\* load_session is running for an id that storage does not know.
LoadingUnknownId ==
    /\ handler.kind = "load_session" /\ handler.pc = "load"
    /\ stored[handler.session_id] = NoSession

\* C14: load_session for an id that storage does not know does not raise:
\* when storage has answered, it reports "Session not found" and returns,
\* and no step of it changes current_session, the display, current_model
\* or is_generating.
C14_UnknownIdLeavesStateAlone ==
    [][(LoadingUnknownId /\ handler' # handler) =>
          /\ handler' = NoHandler
          /\ \/ notified'[1] = "Session not found"
             \/ n_faults' = n_faults + 1 /\ notified'[1] = "Error loading session"
          /\ UNCHANGED <<current_session, message_list, current_model,
                         is_generating, stored, worker>>]_vars

\* C14 happens: with a session on display, an unknown id was selected and
\* reported as not found.
C14_Witness ==
    /\ handler = NoHandler
    /\ notified = <<"Session not found", "Loaded session">>
    /\ current_session.id # 0
    /\ message_list # <<>>

---------------------------------------------------------------------------
\* generate_response calls its generation source (chat_completion or
\* process_with_tools).
GenerationSourceInvoked ==
    /\ worker.kind = "gen" /\ worker.pc = "mount_assistant"
    /\ worker'.kind = "gen" /\ worker'.pc = "stream"

\* The user message of the turn of worker w is in the stored transcript
\* of the session it was submitted in.
UserMessageStored(w) ==
    /\ w.session # 0 /\ w.index > 0
    /\ Len(stored[w.session].messages) >= w.index
    /\ stored[w.session].messages[w.index].role = "user"
    /\ stored[w.session].messages[w.index].content = <<w.message>>

\* C15: for every accepted submission the user message is appended to the
\* transcript, the session is saved, and only then is the generation
\* source called: it is never called for a turn whose user message is not
\* in the transcript and stored.
C15_StoredBeforeGeneration ==
    [][GenerationSourceInvoked => UserMessageStored(worker)]_vars

---------------------------------------------------------------------------
\* A chunk of the stream in flight reaches the display.
ChunkShown ==
    /\ Streaming
    /\ worker'.kind = "gen" /\ worker'.pc = "stream"
    /\ worker'.yielded # worker.yielded
    /\ message_list' # message_list

\* C16: the reply of a turn is appended only to the transcript of the
\* session its user message was submitted in, and its chunks are shown
\* only in the entry the turn opened: after new_chat or load_session has
\* replaced current_session, neither lands in the new session or its
\* display.
C16_ReplyStaysInItsSession ==
    /\ [][(StreamCompletes /\ current_session' # current_session)
             => current_session.id = worker.session]_vars
    /\ [][ChunkShown =>
             \A i \in DOMAIN message_list :
                 message_list'[i] # message_list[i]
                     => message_list[i].turn = worker.message]_vars

---------------------------------------------------------------------------
\* The display entries whose content the step changes in place (a handler
\* that clears and rebuilds the display changes no entry in place).
EntriesModified ==
    {i \in DOMAIN message_list :
        /\ handler' = handler
        /\ i <= Len(message_list')
        /\ message_list'[i] # message_list[i]}

\* C17: content does not change after it has been added, except that of
\* the streaming assistant message: whatever the interleaving of the
\* stream with submit, new_chat and load_session, a chunk or
\* update_last_message changes only the assistant entry opened by the
\* turn in flight, and a message of a transcript, in memory or stored, is
\* never changed.
C17_OnlyStreamingEntryChanges ==
    /\ [][\A i \in EntriesModified :
             /\ worker.kind = "gen"
             /\ message_list[i].role = "assistant"
             /\ message_list[i].turn = worker.message]_vars
    /\ [][/\ \A id \in SessionIds :
                IsPrefix(stored[id].messages, stored'[id].messages)
          /\ (handler' = handler /\ current_session'.id = current_session.id)
                => IsPrefix(current_session.messages,
                            current_session'.messages)]_vars

---------------------------------------------------------------------------
\* generate_response has started and has not returned.
GenerationStarted ==
    worker.kind = "gen" /\ worker.pc \in {"mount_assistant", "list_models",
                                          "stream"}

\* C18: a generation that has started is aborted by no later event: the
\* next step of its worker is a step of generate_response itself, up to
\* the step that ends the turn (the reply appended, or the error entry).
C18_GenerationNeverAborted ==
    [][GenerationStarted =>
          /\ worker'.kind = "gen"
          /\ worker'.message = worker.message
          /\ worker'.pc = "done" =>
                worker'.outcome \in {"saved", "save_failed", "not_stored",
                                     "blocked", "failed"}]_vars

---------------------------------------------------------------------------
\* No handler and no worker is in the middle of executing.
Quiescent ==
    /\ handler = NoHandler
    /\ worker.kind = "none" \/ worker.pc = "done"

\* C19: the session is saved after each mutation: whenever no handler is
\* in the middle of executing and no save_session has raised, the stored
\* copy of the current session equals the session in memory, messages,
\* order and model, whatever new_chat, send_message, generate_response
\* and change_model have done.
C19_StoredEqualsMemory ==
    (Quiescent /\ ~save_failed /\ current_session.id # 0)
        => stored[current_session.id] = current_session

\* C19 happens: after a failure that was not a save, a turn has stored its
\* reply, and the stored session is the one in memory: the welcome
\* message, the user message and the reply.
C19_Witness ==
    /\ Quiescent /\ ~save_failed /\ n_faults = 1
    /\ worker.kind = "gen" /\ worker.outcome = "saved"
    /\ current_session.id # 0
    /\ Len(current_session.messages) >= 3
    /\ stored[current_session.id] = current_session

---------------------------------------------------------------------------
\* MessageList on its own: add_message, update_last_message and clear are
\* applied in every order to a list that starts empty
\* (message_list.py:101-105), with roles and contents drawn from small
\* sets; the rest of the screen stays as constructed.

ListRoles == {"user", "assistant"}

ListContents == {<<>>, <<"a">>, <<"b">>}

ListInit == Init /\ last_model = NoModel

ListAddMessage ==
    /\ Len(message_list) < MaxListLen
    /\ \E role \in ListRoles, content \in ListContents :
         /\ message_list' = add_message(message_list, role, content, "")
         /\ added' = Append(added, MessageWidget(role, content, ""))
    /\ UNCHANGED <<is_generating, current_session, current_model, stored,
                   last_model, available_tools, worker, handler, mounted,
                   notified, last_submit, n_submitted, n_faults, n_sessions,
                   n_sidebar, compose_calls, save_failed, status>>

ListUpdateLastMessage ==
    /\ \E content \in ListContents :
         message_list' = update_last_message(message_list, content)
    /\ UNCHANGED <<is_generating, current_session, current_model, stored,
                   last_model, available_tools, worker, handler, mounted,
                   notified, last_submit, n_submitted, n_faults, n_sessions,
                   n_sidebar, compose_calls, save_failed, added, status>>

ListClear ==
    /\ message_list' = clear(message_list)
    /\ added' = <<>>
    /\ UNCHANGED <<is_generating, current_session, current_model, stored,
                   last_model, available_tools, worker, handler, mounted,
                   notified, last_submit, n_submitted, n_faults, n_sessions,
                   n_sidebar, compose_calls, save_failed, status>>

ListNext ==
    \/ ListAddMessage
    \/ ListUpdateLastMessage
    \/ ListClear

ListSpec == ListInit /\ [][ListNext]_vars

\* The list holds the entries of the history, one for one and in order
\* (the content of an entry may have been updated since).
SameEntries(list, history) ==
    /\ Len(list) = Len(history)
    /\ \A i \in DOMAIN list :
          /\ list[i].role = history[i].role
          /\ list[i].turn = history[i].turn

\* C20: add_message appends exactly one entry at the end and leaves the
\* earlier entries and their order alone; update_last_message changes
\* only the content of the last entry and does nothing to an empty list;
\* clear leaves the list empty; so after any sequence of them the list
\* holds the entries added since the last clear, in the order they were
\* added, and get_messages returns them.
C20_DisplaySinkOperations ==
    /\ [](SameEntries(get_messages(message_list), added))
    /\ [][Len(added') = Len(added) + 1 =>
             message_list' = Append(message_list, Last(added'))]_vars
    /\ [][(added' = <<>> /\ added # <<>>) => message_list' = <<>>]_vars
    /\ [][added' = added =>
             /\ Len(message_list') = Len(message_list)
             /\ \A i \in 1 .. Len(message_list) - 1 :
                    message_list'[i] = message_list[i]
             /\ message_list # <<>> =>
                    /\ Last(message_list').role = Last(message_list).role
                    /\ Last(message_list').turn = Last(message_list).turn
                    /\ Last(message_list').content \in ListContents]_vars

\* C20 happens: three entries were added and the last one was updated;
\* the list holds them in the order they were added.
C20_Witness ==
    /\ Len(added) = 3
    /\ added[1].role = "user" /\ added[2].role = "assistant"
    /\ added[3] = MessageWidget("assistant", <<>>, "")
    /\ message_list = <<added[1], added[2],
                        MessageWidget("assistant", <<"b">>, "")>>

---------------------------------------------------------------------------
\* generate_response has built its prompt and goes on to the placeholder.
PromptBuiltStep ==
    /\ worker.kind = "gen" /\ worker.pc = "start"
    /\ worker'.kind = "gen" /\ worker'.pc = "mount_assistant"

\* The prompt without the system message at its head, if it has one.
WithoutSystem(messages) ==
    IF messages # <<>> /\ messages[1].role = "system"
    THEN Tail(messages) ELSE messages

\* C21: the prompt handed to the generation source is the current
\* transcript, message for message and in order, as {role, content} pairs
\* after the optional system message, and its last element is the user
\* message with the text of the submission the turn was started for.
C21_PromptIsTranscriptEndingInSubmission ==
    [][PromptBuiltStep =>
          /\ WithoutSystem(worker'.messages) = OllamaFormat(current_session)
          /\ worker'.messages # <<>>
          /\ Last(worker'.messages) =
                 [role |-> "user", content |-> <<worker.message>>]]_vars

---------------------------------------------------------------------------
\* load_session returns after it has loaded and shown the session, none of
\* its calls having raised.
LoadCompletes ==
    /\ handler.kind = "load_session" /\ handler.pc = "shown"
    /\ handler' = NoHandler
    /\ n_faults' = n_faults

\* C22: when load_session(id) has succeeded, current_session is the loaded
\* session, the display holds the session's messages one for one and in
\* order, with nothing else, and current_model is the session's model if
\* that differs from it and is available, and otherwise what it was.
C22_LoadShowsTheSession ==
    [][LoadCompletes =>
          /\ current_session'.id = handler.session_id
          /\ message_list' = LoadDisplay(current_session')
          /\ current_model' =
                 IF ModelDiffers(current_session, current_model)
                        /\ ModelKnown(current_session.model)
                 THEN current_session.model
                 ELSE current_model]_vars

---------------------------------------------------------------------------
\* new_chat returns after it has stored the welcome message, none of its
\* calls having raised.
NewChatCompletes ==
    /\ handler.kind = "new_chat" /\ handler.pc = "mount_welcome"
    /\ handler' = NoHandler
    /\ n_faults' = n_faults

\* The transcript of a session that new_chat has just set up.
WelcomeOnly(model) == <<ChatMessage("assistant", WELCOME, model)>>

\* C23: when new_chat has completed without a storage failure,
\* current_session is a newly created session whose transcript is the
\* welcome message alone, the display is that one welcome entry, and the
\* session is stored; nothing of the previous session is left in either.
C23_NewChatStartsClean ==
    [][NewChatCompletes =>
          /\ current_session'.id = LegacyId + n_sessions
          /\ current_session.messages = <<>>
          /\ current_session'.messages = WelcomeOnly(current_model)
          /\ message_list' = <<MessageWidget("assistant", WELCOME, "")>>
          /\ stored'[current_session'.id] = current_session']_vars

---------------------------------------------------------------------------
\* change_model on its own: it is called, one call after the other, with
\* names in and out of the list of available models, from the states a
\* mounted screen can be in; each call runs to its end.

ModelNames == {"llama3", "codellama", "mistral"}

ScreenModels == {NoModel, "llama3", "codellama"}

\* What the status bar shows on a screen at rest (chat.py:226, 412, 441).
ScreenStatus == {"Ready", "New session", "Loaded session"}

\* The sessions new_chat can have left behind: none, or a new one.
ScreenSessions ==
    {NoSession} \cup
    {[create_session(LegacyId + 1, m) EXCEPT !.messages = WelcomeOnly(m)] :
        m \in ScreenModels}

ChangeModelInit ==
    /\ is_generating = FALSE
    /\ current_model \in ScreenModels
    /\ last_model \in ScreenModels
    /\ current_session \in ScreenSessions
    /\ stored = [i \in SessionIds |->
                    IF i = LegacyId THEN LegacySession
                    ELSE IF i = current_session.id THEN current_session
                    ELSE NoSession]
    /\ message_list = IF current_session.id # 0
                      THEN LoadDisplay(current_session) ELSE <<>>
    /\ available_tools = <<>>
    /\ worker = NoWorker
    /\ handler = NoHandler
    /\ mounted = TRUE
    /\ notified = <<>>
    /\ last_submit = "none"
    /\ n_submitted = 0
    /\ n_faults = 0
    /\ n_sessions = IF current_session.id # 0 THEN 1 ELSE 0
    /\ n_sidebar = 0
    /\ compose_calls = [i \in SessionIds \cup {0} |-> 0]
    /\ save_failed = FALSE
    /\ added = <<>>
    /\ status \in ScreenStatus

\* chat.py:452-483: one call of change_model(name).
CallChangeModel ==
    \E name \in ModelNames,
       failing \in {"none"} \cup
           (IF n_faults < MaxFaults THEN ChangeModelCalls ELSE {}) :
        LET r == change_model(name, failing, current_model, last_model,
                              current_session, stored)
        IN  /\ handler' = [NoHandler EXCEPT !.kind = "change_model",
                                            !.pc = r.raised,
                                            !.model_name = name]
            /\ n_faults' = IF r.raised = "none" THEN n_faults
                           ELSE n_faults + 1
            /\ current_model' = r.current_model
            /\ last_model' = r.last_model
            /\ current_session' = r.current_session
            /\ stored' = r.stored
            /\ save_failed' = (save_failed \/ r.raised = "save_session")
            /\ notified' = r.notified
            /\ UNCHANGED <<is_generating, message_list, available_tools,
                           worker, mounted, last_submit, n_submitted,
                           n_sessions, n_sidebar, compose_calls, added>>
            /\ status' = IF r.status = <<>> THEN status ELSE Last(r.status)

ChangeModelNext == CallChangeModel

ChangeModelSpec == ChangeModelInit /\ [][ChangeModelNext]_vars

\* The names of the available models.
AvailableNames == {Available[i] : i \in DOMAIN Available}

\* The step is a call of change_model(name).
ChangeModelCalled(name) ==
    handler'.kind = "change_model" /\ handler'.model_name = name

\* change_model leaves the screen, the session and storage as they were.
ChangesNothing ==
    UNCHANGED <<current_model, last_model, current_session, stored>>

\* After the call the current model, the stored last model and the model
\* of the current session, in memory and stored, are all `name`.
AllEqual(name) ==
    /\ current_model' = name
    /\ last_model' = name
    /\ current_session.id # 0 =>
          /\ current_session' = [current_session EXCEPT !.model = name]
          /\ stored'[current_session.id] = current_session'

\* C24: change_model(name) changes nothing for a name that is not in the
\* list of available models; for an available name it sets current_model,
\* saves it as the last model, and sets and saves the model of the current
\* session, so that all three equal name afterwards (get_models has
\* returned the list in both cases).
C24_ChangeModelAllOrNothing ==
    [][\A name \in ModelNames :
          (ChangeModelCalled(name) /\ handler'.pc # "get_models") =>
              IF name \in AvailableNames THEN AllEqual(name)
              ELSE ChangesNothing]_vars


---------------------------------------------------------------------------
\* _initialize_services on its own (chat.py:128-179): one call on a new
\* screen, for each stored last model, each answer of Ollama and of the
\* MCP client, and each call that may raise.

\* The answers of ollama_client.get_models.
ModelLists ==
    {<<>>, <<"llama3">>, <<"llama3", "codellama">>,
     <<"codellama", "llama3">>, <<"mistral", "llama3">>}

InitServicesInit ==
    /\ is_generating = FALSE
    /\ current_session = NoSession
    /\ current_model = NoModel
    /\ message_list = <<>>
    /\ stored = [i \in SessionIds |-> IF i = LegacyId THEN LegacySession
                                      ELSE NoSession]
    /\ last_model \in {NoModel} \cup ModelNames
    /\ available_tools = <<>>
    /\ worker = NoWorker
    /\ handler = [NoHandler EXCEPT !.kind = "on_mount", !.pc = "init"]
    /\ mounted = FALSE
    /\ notified = <<>>
    /\ last_submit = "none"
    /\ n_submitted = 0
    /\ n_faults = 0
    /\ n_sessions = 0
    /\ n_sidebar = 0
    /\ compose_calls = [i \in SessionIds \cup {0} |-> 0]
    /\ save_failed = FALSE
    /\ added = <<>>
    /\ status = "Initializing..."

\* chat.py:128-179: one call of _initialize_services; the answers of Ollama
\* and the call that raised are kept with the call.
CallInitializeServices ==
    /\ handler.kind = "on_mount"
    /\ \E available \in BOOLEAN, models \in ModelLists,
          mcp_success \in BOOLEAN, tools \in ToolLists,
          failing \in {"none"} \cup
              (IF n_faults < MaxFaults THEN InitServicesCalls ELSE {}) :
         LET r == initialize_services(current_model, available, models,
                                      last_model, mcp_success, tools,
                                      failing)
         IN  /\ current_model' = r.current_model
             /\ available_tools' = r.available_tools
             /\ notified' = r.notified
             /\ status' = r.status
             /\ n_faults' = IF r.raised = "none" THEN n_faults
                            ELSE n_faults + 1
             /\ handler' = [NoHandler EXCEPT
                                !.kind = "initialize_services",
                                !.pc = r.raised,
                                !.available = available,
                                !.models = models]
    /\ UNCHANGED <<is_generating, current_session, message_list, stored,
                   last_model, worker, mounted, last_submit, n_submitted,
                   n_sessions, n_sidebar, compose_calls, save_failed, added>>

InitServicesNext == CallInitializeServices

InitServicesSpec == InitServicesInit /\ [][InitServicesNext]_vars

\* The step is a call of _initialize_services.
InitServicesCalled ==
    handler.kind = "on_mount" /\ handler'.kind = "initialize_services"

\* The names in a list of models.
NamesOf(models) == {models[i] : i \in DOMAIN models}

\* Ollama gave no list of models to choose from: it is not available, or
\* asking it raised.
OllamaUnavailable(call) ==
    ~call.available \/ call.pc \in {"is_available", "get_models"}

\* C25: _initialize_services leaves current_model unset (and the MCP tools
\* uninitialized) if Ollama is unavailable or its list of models is empty;
\* otherwise current_model is the stored last model when that is in the
\* list, else the first model of the list; in every case current_model is
\* unset or in the list.
C25_ModelSelectedWheneverAvailable ==
    [][InitServicesCalled =>
          LET models == handler'.models IN
          /\ IF OllamaUnavailable(handler') \/ models = <<>>
             THEN current_model' = NoModel /\ available_tools' = <<>>
             ELSE current_model' = IF last_model \in NamesOf(models)
                                   THEN last_model ELSE models[1]
          /\ current_model' \in {NoModel} \cup NamesOf(models)]_vars


---------------------------------------------------------------------------
\* The step in which a turn stores its reply (chat.py:354-361).
ReplyStored ==
    /\ worker.kind = "gen" /\ worker.pc = "stream"
    /\ worker'.pc = "done"
    /\ Len(current_session'.messages) = Len(current_session.messages) + 1

\* C26: the model recorded on the assistant message a turn appends to the
\* transcript is the model its generation source was called with, also
\* when change_model has switched current_model during the generation.
C26_ReplyCarriesGeneratingModel ==
    [][ReplyStored =>
          Last(current_session'.messages).model = worker.model]_vars


---------------------------------------------------------------------------
\* The step shows the notification.
Notifies(text) == \E i \in DOMAIN notified' : notified'[i] = text

\* The step ends a selection in the sidebar with the selected session as
\* the current session.
SelectedSessionLoaded ==
    /\ handler.kind = "load_session" /\ handler'.kind = "none"
    /\ current_session'.id = handler.session_id

\* C27: selecting a session whose id is not in storage shows the not-found
\* notice and nothing else; "Loaded session" is shown only when
\* load_session has made the selected session the current session.
C27_LoadedNoticeOnlyWhenLoaded ==
    [][/\ Notifies("Session not found") =>
              notified' = <<"Session not found">>
       /\ Notifies("Loaded session") => SelectedSessionLoaded]_vars


---------------------------------------------------------------------------
\* call_mcp_tool (chat.py:507-541) on its own: calls on a screen at rest,
\* for each answer of the tool transport.

MaxItems == 2

\* An item of a content list: a dict with a "text", a dict without one, or
\* something that is not a dict.
ToolItems ==
    {[is_dict |-> TRUE, has_text |-> TRUE, text |-> "a"],
     [is_dict |-> TRUE, has_text |-> TRUE, text |-> "b"],
     [is_dict |-> TRUE, has_text |-> FALSE, text |-> ""],
     [is_dict |-> FALSE, has_text |-> FALSE, text |-> ""]}

ContentLists == UNION {[1 .. n -> ToolItems] : n \in 0 .. MaxItems}

ToolResults ==
    {NoResult,
     [NoResult EXCEPT !.keys = {"error"}, !.error = "boom"],
     [NoResult EXCEPT !.keys = {"error", "content"}, !.error = "boom",
                      !.value = "42"],
     [NoResult EXCEPT !.keys = {"content"}, !.value = "42"],
     [NoResult EXCEPT !.keys = {"isError"}]}
    \cup {[NoResult EXCEPT !.keys = {"content"}, !.is_list = TRUE,
                           !.items = c] : c \in ContentLists}

ToolNames == {"read_file"}

\* chat.py:524-527: the texts of the items that are dicts with a "text".
RECURSIVE ContentParts(_)
ContentParts(items) ==
    IF items = <<>> THEN <<>>
    ELSE (IF Head(items).is_dict /\ Head(items).has_text
          THEN <<Head(items).text>> ELSE <<>>)
         \o ContentParts(Tail(items))

\* chat.py:528: "\n".join(content_parts)
RECURSIVE Join(_)
Join(parts) ==
    IF parts = <<>> THEN <<>>
    ELSE IF Len(parts) = 1 THEN <<parts[1]>>
    ELSE <<parts[1], "\n">> \o Join(Tail(parts))

\* chat.py:532: str(result), the printed form of a dict.
Str(result) == <<"str(result)">>

\* The fault is raised to the caller.
CallToolExcept_Reraised(tool_name, e) == [raised |-> TRUE, value |-> <<>>]

\* chat.py:536-539: the except clause.
CallToolExcept(tool_name, e) ==
    [raised |-> FALSE, value |-> <<"Error calling tool ", tool_name, ": ", e>>]

\* chat.py:507-541: call_mcp_tool(tool_name, arguments), given what
\* mcp_client.call_tool returns or that it raises.  The result is whether
\* the method raised, the text it returned and the texts it put in the
\* status bar.
call_mcp_tool(tool_name, result, raises) ==
    LET returns(text) == [raised |-> FALSE, value |-> text]
        out == IF raises THEN CallToolExcept(tool_name, "call_tool")
               ELSE IF result.keys = {}
               THEN returns(<<"Tool ", tool_name, " returned no result">>)
               ELSE IF "error" \in result.keys
               THEN returns(<<"Tool error: ", result.error>>)
               ELSE IF "content" \in result.keys
               THEN IF result.is_list
                    THEN returns(Join(ContentParts(result.items)))
                    ELSE returns(<<result.value>>)
               ELSE returns(Str(result))
    IN  [raised |-> out.raised, value |-> out.value,
         status |-> <<"Calling tool", "Ready">>]

CallToolInit == ChangeModelInit

CallMcpTool ==
    \E tool_name \in ToolNames, result \in ToolResults,
       raises \in {FALSE} \cup (IF n_faults < MaxFaults THEN {TRUE} ELSE {}) :
        LET r == call_mcp_tool(tool_name, result, raises)
        IN  /\ handler' = [NoHandler EXCEPT
                               !.kind = "call_mcp_tool",
                               !.pc = IF r.raised THEN "raised"
                                      ELSE IF raises THEN "caught"
                                      ELSE "returned",
                               !.tool_name = tool_name,
                               !.result = IF raises THEN NoResult ELSE result,
                               !.returned = r.value]
            /\ status' = Last(r.status)
            /\ n_faults' = IF raises THEN n_faults + 1 ELSE n_faults
            /\ notified' = <<>>
            /\ UNCHANGED <<is_generating, current_session, current_model,
                           message_list, stored, last_model, available_tools,
                           worker, mounted, last_submit, n_submitted,
                           n_sessions, n_sidebar, compose_calls, save_failed,
                           added>>

CallToolNext == CallMcpTool

CallToolSpec == CallToolInit /\ [][CallToolNext]_vars

\* The step is a call of call_mcp_tool.
CallToolCalled == handler'.kind = "call_mcp_tool"

\* The texts of a content list, one per line.
ContentLines(items) ==
    LET with_text == SelectSeq(items, LAMBDA i : i.is_dict /\ i.has_text)
    IN  [k \in 1 .. (2 * Len(with_text) - 1) |->
            IF k % 2 = 1 THEN with_text[(k + 1) \div 2].text ELSE "\n"]

\* C28: call_mcp_tool never raises and returns a text on every path: the
\* "Tool error" text for a result with an error, the no-result text for an
\* empty result, the "Error calling tool" text when the call raised, and
\* the content otherwise; the status bar shows "Ready" when it returns.
C28_CallToolReturnsTextAndResets ==
    [][CallToolCalled =>
          LET call == handler'
              result == call.result
          IN  /\ call.pc # "raised"
              /\ status' = "Ready"
              /\ call.returned =
                     IF call.pc = "caught"
                     THEN <<"Error calling tool ", call.tool_name, ": ",
                            "call_tool">>
                     ELSE IF result.keys = {}
                     THEN <<"Tool ", call.tool_name, " returned no result">>
                     ELSE IF "error" \in result.keys
                     THEN <<"Tool error: ", result.error>>
                     ELSE IF "content" \notin result.keys
                     THEN <<"str(result)">>
                     ELSE IF result.is_list
                     THEN ContentLines(result.items)
                     ELSE <<result.value>>]_vars

\* call_tool has raised, and call_mcp_tool has returned the error text with
\* the status bar back at "Ready".
C28_Witness ==
    /\ handler.kind = "call_mcp_tool" /\ handler.pc = "caught"
    /\ handler.returned[1] = "Error calling tool "
    /\ status = "Ready"

===========================================================================
